---- MODULE Spec2Model ----
(***************************************************************************)
(* Model of the useLivenessDetection hook                                  *)
(* (src/src/widgets/useLivenessDetection.tsx).                             *)
(*                                                                         *)
(* The hook keeps a reducer state (LivenessState), five refs, and a set of *)
(* callbacks pending in the browser: animation frames, timeouts and the    *)
(* continuation of the awaited validator.  Every callback is a closure of  *)
(* the render that created it, so it reads the `state` of that render: a   *)
(* pending callback carries the two things its closure reads from `state`, *)
(* state.stages.length (len) and state.currentActiveStage (cur).           *)
(* Stage records are JavaScript objects: the reducer state and the         *)
(* closures hold references to them and startScan assigns to their         *)
(* stageState, so they live in a heap indexed by object id.                *)
(*                                                                         *)
(* One time unit is the 3000 ms the validator sleeps.                      *)
(***************************************************************************)
EXTENDS Integers, Sequences, FiniteSets, Bags

\* ---------------------------------------------------------------- bounds
MaxAttempts == 2      \* props.numberOfAttempts ranges over 1..MaxAttempts
MaxTime == 4          \* Date.now() ranges over 1..MaxTime
MaxHostCalls == 2     \* host calls: startScan, stopScan, restartScan, unmount
MaxLen == 4           \* shuffleArray is applied to arrays of 0..MaxLen elements
MaxElem == 3          \* ... whose elements are in 1..MaxElem

\* ------------------------------------------------------------ props (ms/3000)
scanStageTransitionTime == 1
scanStageTimeoutTime == 1
scanTimeoutTime == 2
ValidatorSleep == 1

\* ------------------------------------------------------------ stage objects
Views == <<"front", "left", "right">>

\* The three objects of INITIAL_SCAN_STAGES have ids 1..3; the objects the
\* reducer creates by spreading ({...x}) take ids from DynIds.
SharedIds == 1..3
DynIds == 4..(3 + MaxHostCalls + 3)
ObjIds == SharedIds \cup DynIds

Free == [stage |-> "none", stageState |-> "none", isError |-> FALSE, error |-> "none"]

INITIAL_SCAN_STAGES ==
  [i \in ObjIds |->
     IF i \in SharedIds
       THEN [stage |-> Views[i], stageState |-> "initial", isError |-> FALSE, error |-> "none"]
       ELSE Free]

\* Swap that makes the first assignment of the exchange only.
SwapOverwrite(a, i, j) == [a EXCEPT ![i] = a[j]]

\* shuffleArray(array): every outcome the Fisher-Yates loop can produce with
\* j drawn from 0..i, computed by running the loop on a copy of the array.
Swap(a, i, j) == [a EXCEPT ![i] = a[j], ![j] = a[i]]

RECURSIVE shuffleFrom(_, _)
shuffleFrom(arrs, i) ==
  IF i <= 1 THEN arrs
  ELSE shuffleFrom({Swap(a, i, j) : a \in arrs, j \in 1..i}, i - 1)

shuffleArray(a) == shuffleFrom({a}, Len(a))

\* A call of shuffleArray: the argument as the call leaves it (the loop
\* assigns to the copy [...array] only) and the array returned.
shuffleArrayRun(a) == {[array |-> a, newArray |-> r] : r \in shuffleArray(a)}

VARIABLES
  state,                    \* the reducer state (LivenessState)
  heap,                     \* the stage objects, by id
  scanStartTimeStamp,       \* ref; 0 is null
  scanStageStartTimeStamp,  \* ref; 0 is null
  rafID,                    \* ref; 0 is null, 1 is a handle (pending or spent)
  isStopScanSignal,         \* ref
  remainingAttempts,        \* ref
  numberOfAttempts,         \* props.numberOfAttempts
  tasks,                    \* bag of callbacks pending in the browser
  now,                      \* Date.now()
  mounted,                  \* the component using the hook is mounted
  r0,                       \* state.currentActiveStage of the first render
  hostCalls,                \* host calls made so far
  last,                     \* what the last step did
  calls,                    \* the props callbacks the last step invoked, in order
  nStageError,              \* onScanStageError calls since Init/stop/restart
  nStageCompleted,          \* onScanStageCompleted calls since Init/stop/restart
  nScanCompleted,           \* onScanCompleted calls since Init/stop/restart
  array,                    \* the argument of a call of shuffleArray on its own
  newArray,                 \* ... and the array it returned
  throwing                  \* what fails when called: "none", one of the props
                            \* callbacks, or "validator" (its sleep may reject)

vars == <<state, heap, scanStartTimeStamp, scanStageStartTimeStamp, rafID,
          isStopScanSignal, remainingAttempts, numberOfAttempts, tasks, now,
          mounted, r0, hostCalls, last, calls, nStageError, nStageCompleted,
          nScanCompleted, array, newArray, throwing>>

\* ------------------------------------------------------------ pending callbacks
\* kind: "raf"     requestAnimationFrame(startScan)            (line 301)
\*       "val"     the continuation of `await validator()`     (line 280)
\*       "trans"   the transition timer of scheduleScan        (line 200)
\*       "restart" the setTimeout(.., 0) of restartScan        (line 320)
\* due: when a timer fires or the validator's sleep ends (0: as soon as may be).
\* tracked: the raf whose handle rafID.current holds.
Task(kind, c, due, tracked) ==
  [kind |-> kind, len |-> c.len, cur |-> c.cur, due |-> due, tracked |-> tracked]

Add(B, t) == B (+) SetToBag({t})
Remove(B, t) == B (-) SetToBag({t})
Pending(kind) == {t \in BagToSet(tasks) : t.kind = kind}

\* The closure of the latest render: the one the host's startScan,
\* stopScan and restartScan belong to.
HostClosure == [len |-> Len(state.stages), cur |-> state.currentActiveStage]
\* The closure of the first render: scheduleScan is memoized on
\* props.scanStageTransitionTime alone, so its startScan is the first one.
FirstClosure == [len |-> 3, cur |-> r0]

\* ------------------------------------------------------------ the machine
\* The handlers are sequential code over the reducer state, the heap and the
\* refs: they are written as functions of a record m of these.
Machine(T, self, lbl) ==
  [state |-> state, heap |-> heap, scanStart |-> scanStartTimeStamp,
   stageStart |-> scanStageStartTimeStamp, rafID |-> rafID,
   stop |-> isStopScanSignal, remaining |-> remainingAttempts, tasks |-> T,
   self |-> self, last |-> lbl, calls |-> <<>>, nStageError |-> nStageError,
   nStageCompleted |-> nStageCompleted, nScanCompleted |-> nScanCompleted,
   thrown |-> FALSE]

Range(s) == {s[i] : i \in DOMAIN s}

Refs(m) ==
  {m.state.currentActiveStage, m.self} \cup Range(m.state.stages)
    \cup {t.cur : t \in BagToSet(m.tasks)}

\* The id a new object gets: the least one nothing refers to.
NewId(m) == CHOOSE i \in DynIds \ Refs(m) : \A j \in DynIds \ Refs(m) : i <= j

\* Objects nothing refers to are collected.
Collect(m) ==
  [i \in ObjIds |-> IF i \in SharedIds \cup Refs(m) THEN m.heap[i] ELSE Free]

Tail1(s) == IF Len(s) = 0 THEN <<>> ELSE Tail(s)

\* scanReducer(state, action), with the heap the spreads copy from and the
\* id of the object a spread creates.  action.stages and action.active are
\* the draws of shuffleArray in initialState / RESTART_SCAN.
scanReducer(s, h, new, a) ==
  CASE a.type = "START_SCAN" ->
         [state |-> [s EXCEPT !.scanState = [status |-> "scanning", error |-> "none"],
                              !.isScanActive = TRUE],
          heap |-> h]
    [] a.type = "STOP_SCAN" ->
         [state |-> [scanState |-> [status |-> "idle", error |-> "none"],
                     currentActiveStage |-> a.active,
                     currentAttemptNumber |-> 1,
                     isScanActive |-> FALSE,
                     isTransitioning |-> FALSE,
                     stages |-> a.stages],
          heap |-> h]
    [] a.type = "RESTART_SCAN" ->
         [state |-> [scanState |-> [status |-> "scanning", error |-> "none"],
                     currentActiveStage |-> a.stages[1],
                     currentAttemptNumber |-> 1,
                     isScanActive |-> TRUE,
                     isTransitioning |-> FALSE,
                     stages |-> a.stages],
          heap |-> h]
    [] a.type = "SCAN_COMPLETED" ->
         [state |-> [s EXCEPT !.scanState = [status |-> "completed", error |-> "none"],
                              !.isScanActive = FALSE],
          heap |-> h]
    [] a.type = "SCAN_ERROR" ->
         [state |-> [s EXCEPT !.scanState = [status |-> "error", error |-> a.error],
                              !.isScanActive = FALSE],
          heap |-> h]
    [] a.type = "STAGE_COMPLETED" ->
         LET newStages == Tail1(s.stages) IN
         IF Len(newStages) > 0
           THEN [state |-> [s EXCEPT !.stages = newStages, !.currentActiveStage = new],
                 heap |-> [h EXCEPT ![new] = [h[newStages[1]] EXCEPT !.stageState = "initial"]]]
           ELSE [state |-> [s EXCEPT !.stages = newStages], heap |-> h]
    [] a.type = "STAGE_ERROR" ->
         [state |-> [s EXCEPT !.stages = <<new>> \o Tail1(s.stages),
                              !.currentActiveStage = new,
                              !.currentAttemptNumber = s.currentAttemptNumber + 1],
          heap |-> [h EXCEPT ![new] = [h[s.currentActiveStage] EXCEPT
                                         !.isError = TRUE, !.error = a.error]]]
    [] a.type = "SET_TRANSITIONING" ->
         [state |-> [s EXCEPT !.isTransitioning = a.isTransitioning], heap |-> h]
    [] a.type = "DECREASE_ATTEMPTS" ->
         [state |-> [s EXCEPT !.currentAttemptNumber = s.currentAttemptNumber + 1],
          heap |-> h]
    [] OTHER -> [state |-> s, heap |-> h]

Act(type) == [type |-> type]

\* dispatch(action): React applies the reducer; after the component has
\* unmounted a dispatch changes nothing.
dispatch(m, a) ==
  IF ~mounted THEN m
  ELSE LET r == scanReducer(m.state, m.heap, NewId(m), a)
       IN [m EXCEPT !.state = r.state, !.heap = r.heap]

\* A call of one of the props callbacks; thrown: the call threw, and the
\* statements up to the enclosing catch (or to the end of the function) are
\* skipped.
call(m, cb) ==
  [m EXCEPT !.calls = Append(m.calls, cb),
            !.thrown = (cb = throwing),
            !.nStageError = IF cb = "onScanStageError" THEN @ + 1 ELSE @,
            !.nStageCompleted = IF cb = "onScanStageCompleted" THEN @ + 1 ELSE @,
            !.nScanCompleted = IF cb = "onScanCompleted" THEN @ + 1 ELSE @]

WithoutTracked(B) ==
  LET keep == {t \in BagToSet(B) : ~(t.kind = "raf" /\ t.tracked)}
  IN [t \in keep |-> B[t]]

cleanUp(m) ==
  LET m1 == IF m.rafID # 0
              THEN [m EXCEPT !.tasks = WithoutTracked(m.tasks), !.rafID = 0]
              ELSE m
  IN [m1 EXCEPT !.stop = TRUE]

\* rafID.current = requestAnimationFrame(startScan): the handle rafID held
\* before is overwritten, so the frame it named can no longer be cancelled.
Untracked(B) ==
  BagOfAll(LAMBDA t : IF t.kind = "raf" THEN [t EXCEPT !.tracked = FALSE] ELSE t, B)

requestAnimationFrame(m, c) ==
  [m EXCEPT !.tasks = Add(Untracked(m.tasks), Task("raf", c, 0, TRUE)),
            !.rafID = 1]

scheduleScan(m) ==
  LET m1 == dispatch(m, [type |-> "SET_TRANSITIONING", isTransitioning |-> TRUE])
  IN [m1 EXCEPT !.tasks = Add(m1.tasks,
                              Task("trans", FirstClosure, now + scanStageTransitionTime, FALSE))]

moveToNextStage(m, c) ==
  LET m1 == dispatch(m, Act("STAGE_COMPLETED"))
      m2 == cleanUp([m1 EXCEPT !.stageStart = 0])
  IN IF c.len <= 1
       THEN call(dispatch(m2, Act("SCAN_COMPLETED")), "onScanCompleted")
       ELSE scheduleScan(m2)

\* StageFailed with a timeout that does not cost an attempt.
StageFailedTimeoutFree(m, error) ==
  LET m0 == IF error = "TIMEOUT" THEN m ELSE [m EXCEPT !.remaining = @ - 1]
      m1 == dispatch(m0, [type |-> "STAGE_ERROR", error |-> error])
      m2 == IF error = "TIMEOUT" THEN dispatch(m1, Act("DECREASE_ATTEMPTS")) ELSE m1
  IN call(m2, "onScanStageError")

\* A stage failure of the try block or of its catch (lines 275-278, 288-290,
\* 295-297).
StageFailed(m, error) ==
  LET m1 == dispatch([m EXCEPT !.remaining = @ - 1],
                     [type |-> "STAGE_ERROR", error |-> error])
      m2 == IF error = "TIMEOUT" THEN dispatch(m1, Act("DECREASE_ATTEMPTS")) ELSE m1
  IN call(m2, "onScanStageError")

\* The catch block of startScan (lines 293-298), entered when a statement of
\* the try block has thrown.
Catch(m) ==
  IF m.thrown THEN StageFailed([m EXCEPT !.thrown = FALSE], "VALIDATION_ERROR") ELSE m

\* Line 301, reached unless the catch block has thrown in its turn.
AfterTry(m, c) == IF m.thrown THEN m ELSE requestAnimationFrame(m, c)

\* ScanErrorReason that reports every session error as a scan timeout.
ScanErrorAlwaysTimeout(isAttemptLimitReached) == "SCAN_TIMEOUT"

\* The error of the SCAN_ERROR action (lines 249-251).
ScanErrorReason(isAttemptLimitReached) ==
  IF isAttemptLimitReached THEN "NUMBER_OF_ATTEMPTS_EXCEED" ELSE "SCAN_TIMEOUT"

\* startScan up to its await (or to its end, when it does not await).
startScan(m, c) ==
  IF m.stop THEN [m EXCEPT !.last = "tick:stopped"]
  ELSE
    LET m1 == IF m.scanStart = 0
                THEN dispatch([m EXCEPT !.scanStart = now], Act("START_SCAN"))
                ELSE m
    IN
    IF c.len = 0
      THEN LET m2 == call(m1, "onScanCompleted")
           IN [(IF m2.thrown THEN m2 ELSE cleanUp(dispatch(m2, Act("SCAN_COMPLETED"))))
                 EXCEPT !.last = "tick:completed"]
    ELSE
      LET currentTime == now
          timeDiff == currentTime - m1.scanStart
          isAttemptLimitReached == m1.remaining <= 0
      IN
      IF m1.scanStart # 0 /\ (timeDiff > scanTimeoutTime \/ isAttemptLimitReached)
        THEN [call(dispatch(cleanUp(m1),
                            [type |-> "SCAN_ERROR",
                             error |-> ScanErrorReason(isAttemptLimitReached)]),
                   "onScanError")
                EXCEPT !.last = "tick:error"]
      ELSE
        LET m2 == IF m1.heap[c.cur].stageState = "initial"
                    THEN [m1 EXCEPT !.heap[c.cur].stageState = "scanning",
                                    !.stageStart = now]
                    ELSE m1
        IN
        IF m2.heap[c.cur].stageState = "scanning"
          THEN
            LET m3 == IF m2.stageStart = 0 THEN [m2 EXCEPT !.stageStart = now] ELSE m2
                stageTimeDiff == currentTime - m3.stageStart
                isStageTimeout == stageTimeDiff > scanStageTimeoutTime
            IN IF isStageTimeout
                 THEN [AfterTry(Catch(StageFailed(m3, "TIMEOUT")), c)
                         EXCEPT !.last = "tick:timeout"]
                 ELSE [m3 EXCEPT !.tasks = Add(m3.tasks,
                                               Task("val", c, now + ValidatorSleep, FALSE)),
                                 !.last = "tick:validate"]
          ELSE [requestAnimationFrame(m2, c) EXCEPT !.last = "tick:spin"]

\* startScan from its await on, the validator having returned isValid.
validatorReturned(m, c, isValid) ==
  IF isValid
    THEN LET m1 == call([m EXCEPT !.heap[c.cur].stageState = "completed"],
                        "onScanStageCompleted")
             m2 == IF m1.thrown THEN m1 ELSE moveToNextStage(m1, c)
         IN [(IF m2.thrown THEN AfterTry(Catch(m2), c) ELSE m2)
               EXCEPT !.last = "validated:true"]
    ELSE [AfterTry(Catch(StageFailed(m, "VALIDATION_ERROR")), c)
            EXCEPT !.last = "validated:false"]

stopScan(m, stages, active) ==
  LET m1 == dispatch(cleanUp(m),
                     [type |-> "STOP_SCAN", stages |-> stages, active |-> active])
  IN [call([m1 EXCEPT !.scanStart = 0, !.stageStart = 0,
                      !.remaining = numberOfAttempts], "onScanError")
        EXCEPT !.last = "stopScan"]

restartScan(m, c, stages) ==
  LET m1 == [cleanUp(m) EXCEPT !.scanStart = 0, !.stageStart = 0,
                               !.remaining = numberOfAttempts]
      m2 == dispatch(m1, [type |-> "RESTART_SCAN", stages |-> stages])
  IN [m2 EXCEPT !.tasks = Add(m2.tasks, Task("restart", c, 0, FALSE)),
                !.last = "restartScan"]

\* ------------------------------------------------------------ actions
Commit(m) ==
  /\ state' = m.state
  /\ heap' = Collect([m EXCEPT !.self = m.state.currentActiveStage])
  /\ scanStartTimeStamp' = m.scanStart
  /\ scanStageStartTimeStamp' = m.stageStart
  /\ rafID' = m.rafID
  /\ isStopScanSignal' = m.stop
  /\ remainingAttempts' = m.remaining
  /\ tasks' = m.tasks
  /\ last' = m.last
  /\ calls' = m.calls
  /\ nStageError' = m.nStageError
  /\ nStageCompleted' = m.nStageCompleted
  /\ nScanCompleted' = m.nScanCompleted
  /\ UNCHANGED <<numberOfAttempts, now, mounted, r0, throwing, array, newArray>>

SharedOrder == <<1, 2, 3>>

\* The hook as mounted (lines 77-84, 165-171).
HookInit ==
  /\ \E stages \in shuffleArray(SharedOrder), first \in shuffleArray(SharedOrder) :
       /\ state = [scanState |-> [status |-> "idle", error |-> "none"],
                   currentActiveStage |-> first[1],
                   currentAttemptNumber |-> 1,
                   isScanActive |-> FALSE,
                   isTransitioning |-> FALSE,
                   stages |-> stages]
       /\ r0 = first[1]
  /\ heap = INITIAL_SCAN_STAGES
  /\ scanStartTimeStamp = 0
  /\ scanStageStartTimeStamp = 0
  /\ rafID = 0
  /\ isStopScanSignal = FALSE
  /\ numberOfAttempts \in 1..MaxAttempts
  /\ remainingAttempts = numberOfAttempts
  /\ tasks = EmptyBag
  /\ now = 1
  /\ mounted = TRUE
  /\ hostCalls = 0
  /\ last = "init"
  /\ calls = <<>>
  /\ nStageError = 0
  /\ nStageCompleted = 0
  /\ nScanCompleted = 0

\* The callbacks of the host return normally and the validator's sleep
\* resolves.
Init ==
  /\ HookInit
  /\ throwing = "none"
  /\ array = <<>> /\ newArray = <<>>

\* The host calls startScan of the latest render.
HostStartScan ==
  /\ mounted /\ hostCalls < MaxHostCalls
  /\ hostCalls' = hostCalls + 1
  /\ Commit(startScan(Machine(tasks, HostClosure.cur, "tick"), HostClosure))

HostStopScan ==
  /\ mounted /\ hostCalls < MaxHostCalls
  /\ hostCalls' = hostCalls + 1
  /\ \E stages \in shuffleArray(SharedOrder), first \in shuffleArray(SharedOrder) :
       LET m == stopScan(Machine(tasks, HostClosure.cur, "stopScan"), stages, first[1])
       IN Commit([m EXCEPT !.nStageError = 0, !.nStageCompleted = 0,
                           !.nScanCompleted = 0])

HostRestartScan ==
  /\ mounted /\ hostCalls < MaxHostCalls
  /\ hostCalls' = hostCalls + 1
  /\ \E stages \in shuffleArray(SharedOrder) :
       LET m == restartScan(Machine(tasks, HostClosure.cur, "restartScan"),
                            HostClosure, stages)
       IN Commit([m EXCEPT !.nStageError = 0, !.nStageCompleted = 0,
                           !.nScanCompleted = 0])

\* The animation frame fires: startScan of the closure that requested it.
FrameFires ==
  /\ \E t \in Pending("raf") :
       Commit(startScan(Machine(Remove(tasks, t), t.cur, "tick"),
                        [len |-> t.len, cur |-> t.cur]))
  /\ UNCHANGED hostCalls

\* What can happen inside validator(): Math.random() > 0.5 is true or
\* false, or the awaited sleep rejects.
ValidatorOutcomes ==
  IF throwing = "validator" THEN {"true", "false", "rejects"} ELSE {"true", "false"}

\* validator whose catch block returns true.
validatorCatchTrue(outcome) == outcome \in {"true", "rejects"}

\* validator() (lines 187-195): a rejection is caught and false is returned.
validator(outcome) ==
  IF outcome = "rejects" THEN FALSE ELSE outcome = "true"

\* The awaited validator returns.
ValidatorReturns ==
  /\ \E t \in Pending("val"), outcome \in ValidatorOutcomes :
       /\ t.due <= now
       /\ LET m == validatorReturned(Machine(Remove(tasks, t), t.cur, "validated"),
                                     [len |-> t.len, cur |-> t.cur], validator(outcome))
          IN Commit(IF outcome = "rejects"
                      THEN [m EXCEPT !.last = @ \o ":rejected"]
                      ELSE m)
  /\ UNCHANGED hostCalls

\* The transition timer of scheduleScan fires (lines 200-204).
TransitionTimerFires ==
  /\ \E t \in Pending("trans") :
       /\ t.due <= now
       /\ LET m0 == Machine(Remove(tasks, t), t.cur, "tick")
              m1 == dispatch(m0, [type |-> "SET_TRANSITIONING", isTransitioning |-> FALSE])
          IN Commit(startScan([m1 EXCEPT !.stop = FALSE], [len |-> t.len, cur |-> t.cur]))
  /\ UNCHANGED hostCalls

\* The timer of restartScan fires (lines 320-322).
RestartTimerFires ==
  /\ \E t \in Pending("restart") :
       Commit(startScan(Machine(Remove(tasks, t), t.cur, "tick"),
                        [len |-> t.len, cur |-> t.cur]))
  /\ UNCHANGED hostCalls

\* The component unmounts: the effect's cleanup runs cleanUp (lines 181-185).
Unmount ==
  /\ mounted /\ hostCalls < MaxHostCalls
  /\ hostCalls' = hostCalls + 1
  /\ mounted' = FALSE
  /\ LET m == [cleanUp(Machine(tasks, HostClosure.cur, "unmount")) EXCEPT !.last = "unmount"]
     IN /\ state' = m.state
        /\ heap' = Collect(m)
        /\ rafID' = m.rafID
        /\ isStopScanSignal' = m.stop
        /\ tasks' = m.tasks
        /\ last' = m.last
        /\ calls' = m.calls
  /\ UNCHANGED <<scanStartTimeStamp, scanStageStartTimeStamp, remainingAttempts,
                 numberOfAttempts, now, r0, nStageError, nStageCompleted,
                 nScanCompleted, throwing, array, newArray>>

\* Date.now() advances.  A setTimeout callback runs no earlier than its
\* delay and an animation frame when the browser paints: either may come
\* arbitrarily late (a busy or hidden tab), so time passes whatever is
\* pending.
TimePasses ==
  /\ now < MaxTime
  /\ now' = now + 1
  /\ last' = "time"
  /\ calls' = <<>>
  /\ UNCHANGED <<state, heap, scanStartTimeStamp, scanStageStartTimeStamp, rafID,
                 isStopScanSignal, remainingAttempts, numberOfAttempts, tasks,
                 mounted, r0, hostCalls, nStageError, nStageCompleted,
                 nScanCompleted, throwing, array, newArray>>

Next ==
  \/ HostStartScan
  \/ HostStopScan
  \/ HostRestartScan
  \/ FrameFires
  \/ ValidatorReturns
  \/ TransitionTimerFires
  \/ RestartTimerFires
  \/ Unmount
  \/ TimePasses

Spec == Init /\ [][Next]_vars

\* One session: the host calls startScan once and then leaves the hook alone.
HostStartsOnce == hostCalls = 0 /\ HostStartScan

SessionNext ==
  \/ HostStartsOnce
  \/ FrameFires
  \/ ValidatorReturns
  \/ TransitionTimerFires
  \/ TimePasses

SessionSpec == Init /\ [][SessionNext]_vars

\* Sessions the host starts and restarts but neither stops nor tears down.
LiveNext ==
  \/ HostStartsOnce
  \/ HostRestartScan
  \/ FrameFires
  \/ ValidatorReturns
  \/ TransitionTimerFires
  \/ RestartTimerFires
  \/ TimePasses

LiveSpec == Init /\ [][LiveNext]_vars

\* One session in which the validator's sleep may reject, or one of the props
\* callbacks throws whenever it is called.
Faults == {"validator", "onScanStageCompleted", "onScanStageError",
           "onScanCompleted", "onScanError"}

FaultInit ==
  /\ HookInit
  /\ throwing \in Faults
  /\ array = <<>> /\ newArray = <<>>

FaultSpec == FaultInit /\ [][SessionNext]_vars

\* shuffleArray on its own: the module is loaded, the hook is mounted and not
\* used, and shuffleArray is called once on an array of 0..MaxLen elements.
ShuffleInputs == UNION {[1..n -> 1..MaxElem] : n \in 0..MaxLen}

ShuffleInit ==
  /\ HookInit
  /\ state.stages = SharedOrder /\ r0 = 1 /\ numberOfAttempts = 1
  /\ throwing = "none"
  /\ array \in ShuffleInputs
  /\ newArray = <<>>

ShuffleCall ==
  /\ last = "init"
  /\ \E run \in shuffleArrayRun(array) :
       /\ array' = run.array
       /\ newArray' = run.newArray
  /\ last' = "shuffle"
  /\ UNCHANGED <<state, heap, scanStartTimeStamp, scanStageStartTimeStamp, rafID,
                 isStopScanSignal, remainingAttempts, numberOfAttempts, tasks, now,
                 mounted, r0, hostCalls, calls, nStageError, nStageCompleted,
                 nScanCompleted, throwing>>

ShuffleSpec == ShuffleInit /\ [][ShuffleCall]_vars

\* ------------------------------------------------------------ vocabulary
status == state.scanState.status
reason == state.scanState.error
activeStage == heap[state.currentActiveStage]
sessionElapsed == now - scanStartTimeStamp

\* The last step was a tick that got past the stop check.
TickRan == last \in {"tick:completed", "tick:error", "tick:timeout",
                     "tick:validate", "tick:spin"}
\* ... and past the empty-queue check.
TickChecked == last \in {"tick:error", "tick:timeout", "tick:validate", "tick:spin"}
ValidatorReturned == last \in {"validated:true", "validated:false",
                              "validated:true:rejected", "validated:false:rejected"}
PendingIn(T, kind) == {t \in BagToSet(T) : t.kind = kind}

\* ------------------------------------------------------------ C1
\* C1: in a session the host leaves alone, every stage failure (timeout or
\* failed validation) is one onScanStageError call and one attempt less; the
\* session is in error(NUMBER_OF_ATTEMPTS_EXCEED) only after exactly
\* numberOfAttempts failures; after the last of them the next tick is
\* scheduled, and a tick that finds the budget exhausted puts the session in
\* error(NUMBER_OF_ATTEMPTS_EXCEED); a stage object becomes completed only
\* when the validator has returned true.
C1_Counted ==
  /\ nStageError = numberOfAttempts - remainingAttempts
  /\ (status = "error" /\ reason = "NUMBER_OF_ATTEMPTS_EXCEED"
        => nStageError = numberOfAttempts)
  /\ (nStageError = numberOfAttempts /\ status = "scanning"
        => Pending("raf") # {} /\ Pending("val") = {})

C1_ExhaustedTick ==
  (remainingAttempts <= 0 /\ TickRan')
    => (status' = "error" /\ reason' = "NUMBER_OF_ATTEMPTS_EXCEED"
        /\ calls' = <<"onScanError">>)

C1_CompletedOnlyByValidation ==
  (\E i \in ObjIds : heap'[i].stageState = "completed" /\ heap[i].stageState # "completed")
    => last' = "validated:true"

\* C1: exactly numberOfAttempts stage failures, each with its onScanStageError
\* call, lead to error(NUMBER_OF_ATTEMPTS_EXCEED), and fewer never do.
C1_AttemptsExceeded ==
  /\ []C1_Counted
  /\ [][C1_ExhaustedTick]_vars
  /\ [][C1_CompletedOnlyByValidation]_vars

\* The session is in error(NUMBER_OF_ATTEMPTS_EXCEED) after one failed
\* validation and one stage timeout (numberOfAttempts = 2).
C1_Witness ==
  /\ status = "error" /\ reason = "NUMBER_OF_ATTEMPTS_EXCEED"
  /\ numberOfAttempts = 2 /\ nStageError = 2
  /\ state.currentAttemptNumber = 4
  /\ nStageCompleted = 0

\* ------------------------------------------------------------ C2
\* C2 as stated: a tick that runs with the session's elapsed time over
\* scanTimeoutTime puts the session in error(SCAN_TIMEOUT), whatever the
\* attempt budget.
C2_TimeoutWhateverBudget ==
  (mounted /\ TickChecked /\ scanStartTimeStamp # 0 /\ sessionElapsed > scanTimeoutTime)
    => (status = "error" /\ reason = "SCAN_TIMEOUT")

\* C2 as amended: a tick that gets past the stop check and finds a non-empty
\* stage queue, with the session's elapsed time over scanTimeoutTime, ends the
\* session in error and calls onScanError; the reason is SCAN_TIMEOUT when
\* attempts remain and NUMBER_OF_ATTEMPTS_EXCEED when the budget is exhausted.
C2_TimeoutAmended ==
  (TickChecked /\ scanStartTimeStamp # 0 /\ sessionElapsed > scanTimeoutTime)
    => /\ last = "tick:error"
       /\ calls = <<"onScanError">>
       /\ mounted => /\ status = "error"
                     /\ reason = IF remainingAttempts <= 0
                                   THEN "NUMBER_OF_ATTEMPTS_EXCEED"
                                   ELSE "SCAN_TIMEOUT"

\* A tick has ended the session on the scan timeout with attempts left.
C2_Witness ==
  /\ last = "tick:error" /\ mounted
  /\ sessionElapsed > scanTimeoutTime
  /\ remainingAttempts > 0
  /\ status = "error" /\ reason = "SCAN_TIMEOUT"

\* ------------------------------------------------------------ C3
\* C3: after stopScan the session is idle, the attempt budget is
\* numberOfAttempts, the attempt number is 1, both start timestamps are
\* cleared, and neither a scheduled tick nor a transition timer is pending.
C3_StopResets ==
  last = "stopScan"
    => /\ status = "idle"
       /\ remainingAttempts = numberOfAttempts
       /\ state.currentAttemptNumber = 1
       /\ scanStartTimeStamp = 0 /\ scanStageStartTimeStamp = 0
       /\ Pending("raf") = {}
       /\ Pending("trans") = {}

\* ------------------------------------------------------------ C4
\* C4: when the validator returns after stopScan has reset the session, its
\* result is discarded: no callback is called, the budget, the queue and the
\* statuses are as stopScan left them, and no tick or timer is scheduled.
C4_ResultDiscarded ==
  (ValidatorReturned /\ scanStartTimeStamp = 0 /\ status = "idle")
    => /\ calls = <<>>
       /\ remainingAttempts = numberOfAttempts
       /\ Len(state.stages) = 3
       /\ state.currentAttemptNumber = 1
       /\ Pending("raf") = {}
       /\ Pending("trans") = {}

\* ------------------------------------------------------------ C5
\* C5: when the validator returns true, the validated stage is completed,
\* onScanStageCompleted is called, the queue loses exactly its head, the new
\* head is the active stage, in status initial, and scanStageStartTimeStamp
\* is cleared; and the loop goes on with that stage: a tick that gets past
\* the terminal checks works on the stage that is active, never on a stage
\* that is already completed.
C5_Advanced ==
  (last = "validated:true" /\ mounted /\ Len(state.stages) > 0)
    => /\ calls[1] = "onScanStageCompleted"
       /\ activeStage.stageState = "initial"
       /\ activeStage.stage = heap[state.stages[1]].stage
       /\ scanStageStartTimeStamp = 0

C5_LoopOnActiveStage ==
  /\ last # "tick:spin"
  /\ last = "tick:validate" =>
        \E t \in Pending("val") : heap[t.cur].stage = activeStage.stage

\* C5: a true validation advances the queue to the next stage and the loop
\* goes on to validate that stage.
C5_NextStageValidated == C5_Advanced /\ C5_LoopOnActiveStage

\* ------------------------------------------------------------ C6
\* C6: a session the host leaves alone, in which no stage has failed, either
\* is completed, with three onScanStageCompleted calls, one onScanCompleted
\* call and the attempt budget untouched, or is scanning and on its way to
\* the next stage-completed event: a validator call is outstanding, a
\* transition timer is pending, or a frame is pending whose tick will work
\* on a stage that is initial or scanning.
C6_Completed ==
  /\ status = "completed"
  /\ nStageCompleted = 3 /\ nScanCompleted = 1
  /\ remainingAttempts = numberOfAttempts

C6_Progressing ==
  /\ status = "scanning"
  /\ \E t \in BagToSet(tasks) :
        \/ t.kind \in {"val", "trans"}
        \/ t.kind = "raf" /\ heap[t.cur].stageState \in {"initial", "scanning"}

\* C6: while no stage has failed, the started session is completed (three
\* stage-completed calls, one onScanCompleted call, budget untouched) or on
\* its way there.
C6_AllValidCompletes ==
  (scanStartTimeStamp # 0 /\ nStageError = 0 /\ status # "error")
    => (C6_Completed \/ C6_Progressing)

\* ------------------------------------------------------------ C7
\* C7: at most one validator call is outstanding.
C7_OneValidation ==
  BagCardinality([t \in Pending("val") |-> tasks[t]]) <= 1

\* ------------------------------------------------------------ C8
\* C8: once the component has unmounted, no tick and no transition timer is
\* pending, and no step runs a tick body, a validator continuation or a
\* props callback.
C8_TeardownCancels ==
  ~mounted
    => /\ Pending("raf") = {}
       /\ Pending("trans") = {}
       /\ last \in {"unmount", "time", "tick:stopped"}
       /\ calls = <<>>

\* ------------------------------------------------------------ C9
\* C9: restartScan from error or completed leaves the session scanning, with
\* a stage order that is a permutation of the three stages, every stage in
\* status initial and without error, the active stage the head of the order,
\* the budget numberOfAttempts, the attempt number 1 and both start
\* timestamps null.
FreshSession ==
  /\ status = "scanning"
  /\ Len(state.stages) = 3
  /\ {heap[state.stages[i]].stage : i \in 1..3} = Range(Views)
  /\ \A i \in 1..3 : /\ heap[state.stages[i]].stageState = "initial"
                       /\ ~heap[state.stages[i]].isError
  /\ state.currentActiveStage = state.stages[1]
  /\ remainingAttempts = numberOfAttempts
  /\ state.currentAttemptNumber = 1
  /\ scanStartTimeStamp = 0 /\ scanStageStartTimeStamp = 0

C9_RestartStep ==
  (status \in {"error", "completed"} /\ last' = "restartScan") => FreshSession'

\* C9: every restartScan step from error or completed yields a fresh session.
C9_RestartFresh == [][C9_RestartStep]_vars

\* ------------------------------------------------------------ C10
\* C10: stopScan and restartScan leave the stop signal cleared, so the tick
\* that follows is not ended by the stop check.
C10_TickAfterReset ==
  (last \in {"stopScan", "restartScan"} /\ last' \in {"tick:stopped"} \cup
     {"tick:completed", "tick:error", "tick:timeout", "tick:validate", "tick:spin"})
    => last' # "tick:stopped"

\* C10: the tick that follows stopScan or restartScan is not ended by the
\* stop check.
C10_StopSignalCleared == [][C10_TickAfterReset]_vars

\* ------------------------------------------------------------ C11
\* C11: onScanError is called only by a tick that puts the session in error,
\* once in that tick; no stage failure, stopScan or restartScan calls it.
C11_OnlyOnSessionError ==
  (\E i \in DOMAIN calls : calls[i] = "onScanError")
    => /\ last = "tick:error"
       /\ calls = <<"onScanError">>
       /\ mounted => status = "error"

\* ------------------------------------------------------------ C12
\* C12: a validator call that rejects has the effect of one that returns
\* false: the active stage gets the error VALIDATION_ERROR and stays the head
\* of a queue of the same length, the attempt budget goes down by one,
\* onScanStageError is called once and nothing else, and a frame is requested
\* for the closure that validated, whose stage is still scanning.
C12_Rejected == last \in {"validated:true:rejected", "validated:false:rejected"}

C12_RejectionStep ==
  (C12_Rejected' \/ (last' = "validated:false" /\ throwing = "validator"))
    => /\ remainingAttempts' = remainingAttempts - 1
       /\ calls' = <<"onScanStageError">>
       /\ activeStage'.isError /\ activeStage'.error = "VALIDATION_ERROR"
       /\ activeStage'.stage = activeStage.stage
       /\ Len(state'.stages) = Len(state.stages)
       /\ state'.stages[1] = state'.currentActiveStage
       /\ state'.currentAttemptNumber = state.currentAttemptNumber + 1
       /\ \A t \in Pending("val") :
            \E r \in PendingIn(tasks', "raf") :
               r.cur = t.cur /\ heap'[r.cur].stageState = "scanning"

\* C12: every step in which the validator rejects is a validation failure.
C12_RejectionIsFailure == [][C12_RejectionStep]_vars

\* The validator has rejected on the second attempt, after a first failure.
C12_Witness ==
  /\ last = "validated:false:rejected"
  /\ numberOfAttempts = 2 /\ remainingAttempts = 0
  /\ nStageError = 2
  /\ activeStage.error = "VALIDATION_ERROR"
  /\ Pending("raf") # {}

\* ------------------------------------------------------------ C13
\* C13: a props callback that throws changes nothing: a true validation
\* leaves the budget alone, takes the head off the queue and sets the
\* transition timer (or completes the session); a stage failure costs one
\* attempt, keeps the queue and requests the next frame; a tick that ends
\* the session leaves it in error.
C13_Step ==
  /\ last' = "validated:true"
       => /\ remainingAttempts' = remainingAttempts
          /\ Len(state'.stages) = Len(state.stages) - 1
          /\ PendingIn(tasks', "trans") # {} \/ status' = "completed"
  /\ last' \in {"validated:false", "tick:timeout"}
       => /\ remainingAttempts' = remainingAttempts - 1
          /\ Len(state'.stages) = Len(state.stages)
          /\ PendingIn(tasks', "raf") # {}
  /\ last' = "tick:error" => status' = "error"

\* C13: every step has the effect it has when the callbacks return normally.
C13_ThrowingCallbackHarmless == [][C13_Step]_vars

\* ------------------------------------------------------------ C14
\* The orderings of a sequence.
Orderings(a) ==
  LET n == Len(a)
      Bij == {p \in [1..n -> 1..n] : \A i, j \in 1..n : p[i] = p[j] => i = j}
  IN {[i \in 1..n |-> a[p[i]]] : p \in Bij}

C14_Permutation ==
  last = "shuffle"
    => /\ Len(newArray) = Len(array)
       /\ \A e \in 1..MaxElem :
            Cardinality({i \in DOMAIN newArray : newArray[i] = e})
              = Cardinality({i \in DOMAIN array : array[i] = e})
       /\ Orderings(array) \subseteq shuffleArray(array)

C14_InputKept == array' = array

\* C14: shuffleArray returns an array of the same length with the same
\* elements, each as often as in its argument, leaves its argument as it
\* was, and can return every ordering of its argument.
C14_ShufflePermutes == []C14_Permutation /\ [][C14_InputKept]_vars

\* shuffleArray has returned a reordering of an array with a repeated element.
C14_Witness ==
  /\ last = "shuffle"
  /\ array = <<1, 2, 2, 3>>
  /\ newArray = <<2, 3, 1, 2>>

\* ------------------------------------------------------------ C15
C15_InRange == remainingAttempts \in 0..numberOfAttempts

C15_Step ==
  /\ remainingAttempts' > remainingAttempts => last' \in {"stopScan", "restartScan"}
  /\ last' \in {"validated:false", "tick:timeout"}
       => remainingAttempts' = remainingAttempts - 1
  /\ (remainingAttempts = 0 /\ TickRan' /\ mounted)
       => status' = "error" /\ reason' = "NUMBER_OF_ATTEMPTS_EXCEED"

\* C15: under every interleaving of ticks, validator returns and host calls,
\* the attempt budget is in 0..numberOfAttempts, goes up only when stopScan
\* or restartScan resets it, goes down by one with every stage failure, and
\* once it is 0 the next tick puts the session in
\* error(NUMBER_OF_ATTEMPTS_EXCEED).
C15_BudgetBounded == []C15_InRange /\ [][C15_Step]_vars

\* ------------------------------------------------------------ C16
C16_RetryDelayed ==
  (last \in {"tick:timeout", "validated:false"} /\ remainingAttempts > 0)
    => /\ Len(state.stages) = 3 - nStageCompleted
       /\ state.stages[1] = state.currentActiveStage
       /\ Pending("raf") = {}
       /\ \E t \in Pending("trans") : t.due = now + scanStageTransitionTime

C16_TimeoutCostsOne ==
  last' = "tick:timeout"
    => /\ remainingAttempts' = remainingAttempts - 1
       /\ activeStage'.stage = activeStage.stage

\* C16: after a stage failure that leaves attempts, the failed stage is still
\* the active stage and the head of the queue, and its next attempt is set
\* on the transition timer, not on the next frame; a stage timeout costs one
\* attempt.
C16_RetryAfterDelay == []C16_RetryDelayed /\ [][C16_TimeoutCostsOne]_vars

\* ------------------------------------------------------------ C17
QueueViews == {heap[state.stages[i]].stage : i \in DOMAIN state.stages}
CompletedViews == {heap[i].stage : i \in {j \in ObjIds : heap[j].stageState = "completed"}}

C17_Partition ==
  /\ Cardinality(QueueViews) = Len(state.stages)
  /\ QueueViews \cup CompletedViews = Range(Views)
  /\ QueueViews \cap CompletedViews = {}

C17_CompletedIsHead ==
  (last' = "validated:true" /\ Len(state.stages) > 0)
    => CompletedViews' \ CompletedViews = {heap[state.stages[1]].stage}

\* C17: in a session the stages completed and the stages in the queue are
\* front, left and right, each once, and the stage a validation completes is
\* the head of the queue.
C17_StagesKept == []C17_Partition /\ [][C17_CompletedIsHead]_vars

\* ------------------------------------------------------------ C18
\* The stage objects of the session: those of the queue and the active one.
SessionStages == Range(state.stages) \cup {state.currentActiveStage}

C18_OneScanning ==
  (status = "scanning" /\ scanStageStartTimeStamp # 0)
    => /\ Cardinality({i \in SessionStages : heap[i].stageState = "scanning"}) = 1
       /\ activeStage.stageState = "scanning"
       /\ heap[state.stages[1]].stage = activeStage.stage
       /\ \A j \in 2..Len(state.stages) : heap[state.stages[j]].stageState = "initial"
       /\ Range(Views) \ QueueViews \subseteq CompletedViews

C18_Moves ==
  /\ \A i \in SharedIds :
        \/ heap'[i].stageState = heap[i].stageState
        \/ heap[i].stageState = "initial" /\ heap'[i].stageState = "scanning"
        \/ heap[i].stageState = "scanning" /\ heap'[i].stageState = "completed"
  /\ state'.currentActiveStage # state.currentActiveStage
       => activeStage'.stage \notin CompletedViews'

\* C18: while the session is scanning and a stage has been entered, the
\* active stage is the one stage in status scanning, it is the head of the
\* queue, the stages behind it are initial and the stages no longer in the
\* queue are completed; a stage object moves only from initial to scanning
\* and from scanning to completed, and a completed stage is not made the
\* active stage again.
C18_StageStatuses == []C18_OneScanning /\ [][C18_Moves]_vars

\* ------------------------------------------------------------ C19
C19_ClearedOnLeave ==
  last \in {"validated:true", "validated:false", "tick:timeout"}
    => scanStageStartTimeStamp = 0

C19_SetOnEnter ==
  scanStageStartTimeStamp' # scanStageStartTimeStamp /\ scanStageStartTimeStamp' # 0
    => /\ last' \in {"tick:validate", "tick:timeout"}
       /\ scanStageStartTimeStamp' = now
       /\ \E i \in ObjIds : /\ heap[i].stageState = "initial"
                            /\ heap'[i].stageState = "scanning"

\* C19: scanStageStartTimeStamp is set by the tick in which a stage goes from
\* initial to scanning, to the time of that tick, and is null after every
\* step in which the stage leaves scanning: a completion, a failed
\* validation or a stage timeout.
C19_StageStartAnchored == []C19_ClearedOnLeave /\ [][C19_SetOnEnter]_vars

\* ------------------------------------------------------------ C20
C20_Kept ==
  (scanStartTimeStamp # 0 /\ scanStartTimeStamp' # scanStartTimeStamp)
    => last' \in {"stopScan", "restartScan"}

C20_Cleared ==
  last' \in {"stopScan", "restartScan"} => scanStartTimeStamp' = 0

C20_Set ==
  (scanStartTimeStamp = 0 /\ scanStartTimeStamp' # 0)
    => /\ TickRan'
       /\ scanStartTimeStamp' = now
       /\ mounted => status = "idle" /\ status' = "scanning"

\* C20: scanStartTimeStamp is set by a tick, to the time of that tick and
\* together with the step of the session from idle to scanning; once set it
\* is not changed by any later step of the session; stopScan and restartScan
\* clear it, and nothing else does.
C20_SetWithIdleToScanning == [][C20_Kept /\ C20_Cleared /\ C20_Set]_vars

\* ------------------------------------------------------------ C21
\* The number of pending callbacks of a kind.
Count(kind) == BagCardinality([t \in Pending(kind) |-> tasks[t]])

\* C21: under every interleaving of ticks and host calls, at most one
\* transition timer and at most one scheduled tick (animation frame or
\* restart timer) are pending, and none of them while a validator call is
\* outstanding.
C21_OnePending ==
  /\ Count("trans") <= 1
  /\ Count("raf") + Count("restart") <= 1
  /\ Count("val") > 0 => Count("trans") + Count("raf") + Count("restart") = 0

\* ------------------------------------------------------------ C22
C22_Edge ==
  \/ status' = status
  \/ status = "idle" /\ status' = "scanning" /\ TickRan'
  \/ status = "scanning" /\ status' = "error" /\ last' = "tick:error"
  \/ status = "scanning" /\ status' = "completed"
       /\ last' \in {"tick:completed", "validated:true"}
  \/ status' = "idle" /\ last' = "stopScan"
  \/ status \in {"error", "completed"} /\ status' = "scanning" /\ last' = "restartScan"

\* C22: the status changes only from idle to scanning by a tick, from
\* scanning to error or completed, from any status to idle by stopScan, and
\* from error or completed to scanning by restartScan.
C22_TransitionTable == [][C22_Edge]_vars

\* ------------------------------------------------------------ C23
StageCallbacks == {"onScanStageCompleted", "onScanStageError"}

C23_TerminalTick ==
  last' \in {"tick:error", "tick:completed"}
    => /\ PendingIn(tasks', "raf") \subseteq Pending("raf")
       /\ PendingIn(tasks', "trans") \subseteq Pending("trans")

C23_Quiet ==
  (status \in {"error", "completed"} /\ last' \notin {"stopScan", "restartScan"})
    => /\ status' = status
       /\ remainingAttempts' = remainingAttempts
       /\ \A i \in DOMAIN calls' : calls'[i] \notin StageCallbacks
       /\ PendingIn(tasks', "val") \subseteq Pending("val")
       /\ last' \notin {"tick:validate", "tick:timeout"}

\* C23: a tick that ends the session schedules no tick and no timer, and
\* while the session is in error or completed no step but stopScan or
\* restartScan changes the status or the attempt budget, calls a stage
\* callback or invokes the validator.
C23_TerminalIsQuiet == [][C23_TerminalTick /\ C23_Quiet]_vars

\* ------------------------------------------------------------ C24
\* C24: when the host neither stops nor tears down, a session that has been
\* started by startScan or restartScan and is not yet completed or in error
\* has a frame, a timer or a validator call pending: the loop is driven by
\* these alone, so a scanning session with none of them pending never
\* reaches completed or error.
C24_SessionEnds ==
  status = "scanning" => tasks # EmptyBag

\* ------------------------------------------------------------ C25
C25_Agree ==
  state.currentAttemptNumber + remainingAttempts = numberOfAttempts + 1

C25_Step ==
  /\ last' \in {"validated:false", "tick:timeout"}
       => state'.currentAttemptNumber = state.currentAttemptNumber + 1
  /\ last' \in {"stopScan", "restartScan"} => state'.currentAttemptNumber = 1

\* C25: currentAttemptNumber + remainingAttempts = numberOfAttempts + 1 in
\* every state of a session: a stage failure, timeout or failed validation,
\* raises currentAttemptNumber by one, and stopScan and restartScan return it
\* to 1.
C25_AttemptNumberAgrees == []C25_Agree /\ [][C25_Step]_vars

\* ------------------------------------------------------------ C26
\* C26: while the queue is not empty the active stage is the stage at the
\* head of the queue, and an outstanding validation is for that stage.
C26_ActiveIsHead ==
  Len(state.stages) > 0
    => /\ activeStage.stage = heap[state.stages[1]].stage
       /\ \A t \in Pending("val") : heap[t.cur].stage = activeStage.stage

\* ------------------------------------------------------------ C27
\* C27: isTransitioning is true exactly while a transition timer is pending,
\* and false while a validator call is outstanding or a tick is scheduled.
C27_FlagIsTimer ==
  /\ state.isTransitioning <=> Pending("trans") # {}
  /\ (Pending("val") # {} \/ Pending("raf") # {} \/ Pending("restart") # {})
       => ~state.isTransitioning

====
